---- MODULE Spec2Model ----
(***************************************************************************)
(* Model of the 3D asset browser: the reducer of App.tsx, the compression  *)
(* transform simulateCompression, the filter/sort hook useAssetFilterSort  *)
(* the job hook useCompressionJob, and the normalization of a loaded model *)
(* in Viewer/GLTFAsset.                                                    *)
(*                                                                         *)
(* Strings that the code takes apart (names, tags, categories, the filter  *)
(* query) are sequences of one-character strings; the strings it only      *)
(* copies or compares (ids, dates, shapes, colours, urls) stay strings.    *)
(* A JavaScript null or undefined is the string "null"; progress, of type  *)
(* number | null, is a sequence of at most one number. The numbers of the  *)
(* 3D scene are exact fractions [num, den].                                *)
(***************************************************************************)
EXTENDS Integers, Sequences, FiniteSets, TLC

VARIABLES
    state,      \* the useReducer state {assets, selectedId, filter, lod}
    progress,   \* useCompressionJob: progress, <<n>> or <<>> for null
    isPending,  \* useCompressionJob: the useTransition flag
    timers,     \* handles of the setInterval timers not yet cleared
    timeouts,   \* the setTimeout callbacks not yet fired, oldest first
    runs,       \* number of run(next) invocations so far (the newest handle)
    dispatched, \* number of dispatches to the reducer taken alone
    scene,      \* GLTFAsset: the scene useGLTF(url) hands out, shared and cached
    normalized, \* GLTFAsset: the root the useMemo returned, null before it ran
    last        \* the last step: its kind and its input; for a dispatch or a
                \* completion, the state it was applied to; for a completion,
                \* whether the step before it was a click that changed the
                \* selection; for a render or a normalization, what it measured

vars == <<state, progress, isPending, timers, timeouts, runs, dispatched, scene,
          normalized, last>>

----------------------------------------------------------------------------
(* Bounds of the model *)

\* run(next) invocations in one behaviour of the application
MaxRuns == 2

\* dispatches in one behaviour of the reducer taken alone
MaxDispatch == 3
\* the longest catalog handed to useAssetFilterSort alone
MaxCatalog == 4
\* the most vertices of a model handed to GLTFAsset alone
MaxPoints == 2

----------------------------------------------------------------------------
(* types.ts *)

null == "null"

LOD == {"HIGH", "MED", "LOW"}

\* a level no member of LOD: what a caller reaches with a cast (e.target.value as LOD)
UnknownLOD == "ULTRA"

----------------------------------------------------------------------------
(* data: INITIAL_ASSETS *)

INITIAL_ASSETS ==
    << [id |-> "1",
        name |-> <<"H","e","r","o"," ","S","h","i","e","l","d">>,
        polyCount |-> 820000, sizeMB |-> 180,
        tags |-> << <<"p","r","o","p">>, <<"h","e","r","o">> >>,
        createdAt |-> "2025-09-01T12:00:00Z",
        shape |-> "cylinder", color |-> "#e11d48",
        category |-> <<"f","i","l","m">>,
        gltfUrl |-> null],
       [id |-> "2",
        name |-> <<"E","x","p","l","o","r","e","r"," ","H","e","l","m","e","t">>,
        polyCount |-> 1350000, sizeMB |-> 420,
        tags |-> << <<"h","e","l","m","e","t">>,
                    <<"c","h","a","r","a","c","t","e","r">> >>,
        createdAt |-> "2025-08-21T09:00:00Z",
        shape |-> "sphere", color |-> "#f59e0b",
        category |-> <<"c","h","a","r","a","c","t","e","r">>,
        gltfUrl |-> "/models/helmet.glb"],
       [id |-> "3",
        name |-> <<"C","i","t","y"," ","B","i","l","l","b","o","a","r","d">>,
        polyCount |-> 240000, sizeMB |-> 95,
        tags |-> << <<"e","n","v","i","r","o","n","m","e","n","t">>,
                    <<"m","a","r","k","e","t","i","n","g">> >>,
        createdAt |-> "2025-07-15T17:30:00Z",
        shape |-> "box", color |-> "#6366f1",
        category |-> <<"e","n","v","i","r","o","n","m","e","n","t">>,
        gltfUrl |-> null],
       [id |-> "4",
        name |-> <<"S","t","u","d","i","o"," ","L","a","m","p">>,
        polyCount |-> 300000, sizeMB |-> 120,
        tags |-> << <<"p","r","o","p">>, <<"l","i","g","h","t","i","n","g">> >>,
        createdAt |-> "2025-05-25T08:00:00Z",
        shape |-> "torus", color |-> "#fbbf24",
        category |-> <<"p","r","o","d","u","c","t">>,
        gltfUrl |-> null] >>

----------------------------------------------------------------------------
(* JavaScript numbers *)

Max(a, b) == IF a >= b THEN a ELSE b
Min(a, b) == IF a <= b THEN a ELSE b

\* the power of two e with e <= v < 2e, for v2 = 2v and e at most v
RECURSIVE Binade(_, _)
Binade(e, v2) == IF 4 * e <= v2 THEN Binade(2 * e, v2) ELSE e

\* Math.round(n * f) for an integer n >= 0 and a factor f = num/den written
\* in the code as a decimal literal.  Math.round rounds a half up.  The
\* product is an IEEE-754 double: 0.5 and 0.25 are exact; a product by 0.8,
\* 0.4 or 0.2 is never a half; 0.7 is stored as 0.7 - 0.4 * 2^-53, so a
\* product that would be k + 1/2 (n = 5 mod 10) is stored as k + 1/2 only
\* in the lower three quarters of its binade [e, 2e), and a little below it
\* (rounding to k) in the upper quarter.
MathRoundProduct(n, f) ==
    IF f.num = 7 /\ f.den = 10 /\ n % 10 = 5
    THEN LET k == (7 * n - 5) \div 10
             e == Binade(1, 2 * k + 1)
         IN  IF 2 * n <= 5 * e THEN k + 1 ELSE k
    ELSE (2 * f.num * n + f.den) \div (2 * f.den)

----------------------------------------------------------------------------
(* lib/simulateCompression *)

PolyFloor == 10000
SizeFloor == 20

\* lodFactor as it would be with the MED branch lost
lodFactor_noMed(lod) ==
    IF lod = "HIGH" THEN [num |-> 7, den |-> 10] ELSE [num |-> 2, den |-> 10]

\* lod === "HIGH" ? 0.7 : lod === "MED" ? 0.4 : 0.2
lodFactor(lod) ==
    IF lod = "HIGH" THEN [num |-> 7, den |-> 10]
    ELSE IF lod = "MED" THEN [num |-> 4, den |-> 10]
    ELSE [num |-> 2, den |-> 10]

\* lod === "HIGH" ? 0.8 : lod === "MED" ? 0.5 : 0.25
texFactor(lod) ==
    IF lod = "HIGH" THEN [num |-> 8, den |-> 10]
    ELSE IF lod = "MED" THEN [num |-> 5, den |-> 10]
    ELSE [num |-> 25, den |-> 100]

\* simulateCompression as it would be without the two Math.max floors
simulateCompression_noFloor(a, lod) ==
    [a EXCEPT
        !.polyCount = MathRoundProduct(a.polyCount, lodFactor(lod)),
        !.sizeMB = MathRoundProduct(a.sizeMB, texFactor(lod))]

\* simulateCompression as it would be with Math.min in place of Math.max
simulateCompression_min(a, lod) ==
    [a EXCEPT
        !.polyCount = Min(PolyFloor, MathRoundProduct(a.polyCount, lodFactor(lod))),
        !.sizeMB = Min(SizeFloor, MathRoundProduct(a.sizeMB, texFactor(lod)))]

\* simulateCompression as it would be if a value within 1 of its floor were
\* left as it is
simulateCompression_lazy(a, lod) ==
    [a EXCEPT
        !.polyCount = IF a.polyCount <= PolyFloor + 1 THEN a.polyCount
                      ELSE Max(PolyFloor, MathRoundProduct(a.polyCount, lodFactor(lod))),
        !.sizeMB = IF a.sizeMB <= SizeFloor + 1 THEN a.sizeMB
                   ELSE Max(SizeFloor, MathRoundProduct(a.sizeMB, texFactor(lod)))]

simulateCompression(a, lod) ==
    [a EXCEPT
        !.polyCount = Max(PolyFloor, MathRoundProduct(a.polyCount, lodFactor(lod))),
        !.sizeMB = Max(SizeFloor, MathRoundProduct(a.sizeMB, texFactor(lod)))]

----------------------------------------------------------------------------
(* App.tsx: reducer *)

\* Array.prototype.findIndex on the id; positions count from 1, -1 is "not found"
findIndex(assets, id) ==
    IF \E i \in 1..Len(assets) : assets[i].id = id
    THEN CHOOSE i \in 1..Len(assets) :
            /\ assets[i].id = id
            /\ \A j \in 1..(i - 1) : assets[j].id # id
    ELSE -1

\* !state.selectedId: null and the empty string are falsy
Falsy(s) == s = null \/ s = ""

\* reducer as it would be if an unresolved selection fell back on the
\* first asset instead of returning
reducer_fallbackFirst(s, action) ==
    CASE action.type = "select" -> [s EXCEPT !.selectedId = action.id]
      [] action.type = "filter" -> [s EXCEPT !.filter = action.q]
      [] action.type = "set_lod" -> [s EXCEPT !.lod = action.lod]
      [] action.type = "compress_selected" ->
            LET idx == Max(findIndex(s.assets, s.selectedId), 1)
            IN  [s EXCEPT !.assets[idx] =
                    simulateCompression(s.assets[idx], action.lod)]
      [] OTHER -> s

\* reducer as it would be if select checked that an asset has the id
reducer_selectChecked(s, action) ==
    CASE action.type = "select" ->
            IF findIndex(s.assets, action.id) = -1 THEN s
            ELSE [s EXCEPT !.selectedId = action.id]
      [] action.type = "filter" -> [s EXCEPT !.filter = action.q]
      [] action.type = "set_lod" -> [s EXCEPT !.lod = action.lod]
      [] action.type = "compress_selected" ->
            IF Falsy(s.selectedId) THEN s
            ELSE LET idx == findIndex(s.assets, s.selectedId)
                 IN  IF idx = -1 THEN s
                     ELSE [s EXCEPT !.assets[idx] =
                              simulateCompression(s.assets[idx], action.lod)]
      [] OTHER -> s

\* reducer as it would be if it took a compress at the level the state is
\* at for done already
reducer_skipSameLevel(s, action) ==
    CASE action.type = "select" -> [s EXCEPT !.selectedId = action.id]
      [] action.type = "filter" -> [s EXCEPT !.filter = action.q]
      [] action.type = "set_lod" -> [s EXCEPT !.lod = action.lod]
      [] action.type = "compress_selected" ->
            IF Falsy(s.selectedId) \/ s.lod = action.lod THEN s
            ELSE LET idx == findIndex(s.assets, s.selectedId)
                 IN  IF idx = -1 THEN s
                     ELSE [s EXCEPT !.assets[idx] =
                              simulateCompression(s.assets[idx], action.lod)]
      [] OTHER -> s

\* reducer as it would be if typing in the search box dropped the selection
reducer_filterDeselects(s, action) ==
    CASE action.type = "select" -> [s EXCEPT !.selectedId = action.id]
      [] action.type = "filter" -> [s EXCEPT !.filter = action.q, !.selectedId = null]
      [] action.type = "set_lod" -> [s EXCEPT !.lod = action.lod]
      [] action.type = "compress_selected" ->
            IF Falsy(s.selectedId) THEN s
            ELSE LET idx == findIndex(s.assets, s.selectedId)
                 IN  IF idx = -1 THEN s
                     ELSE [s EXCEPT !.assets[idx] =
                              simulateCompression(s.assets[idx], action.lod)]
      [] OTHER -> s

\* reducer as it would be if a compress ran the transform over every asset
reducer_compressAll(s, action) ==
    CASE action.type = "select" -> [s EXCEPT !.selectedId = action.id]
      [] action.type = "filter" -> [s EXCEPT !.filter = action.q]
      [] action.type = "set_lod" -> [s EXCEPT !.lod = action.lod]
      [] action.type = "compress_selected" ->
            IF Falsy(s.selectedId) THEN s
            ELSE LET idx == findIndex(s.assets, s.selectedId)
                 IN  IF idx = -1 THEN s
                     ELSE [s EXCEPT !.assets =
                              [j \in 1..Len(s.assets) |->
                                  simulateCompression(s.assets[j], action.lod)]]
      [] OTHER -> s

reducer(s, action) ==
    CASE action.type = "select" -> [s EXCEPT !.selectedId = action.id]
      [] action.type = "filter" -> [s EXCEPT !.filter = action.q]
      [] action.type = "set_lod" -> [s EXCEPT !.lod = action.lod]
      [] action.type = "compress_selected" ->
            IF Falsy(s.selectedId) THEN s
            ELSE LET idx == findIndex(s.assets, s.selectedId)
                 IN  IF idx = -1 THEN s
                     ELSE [s EXCEPT !.assets[idx] =
                              simulateCompression(s.assets[idx], action.lod)]
      [] OTHER -> s

\* What the value reducer returns shares with its argument: "state" when it
\* is the argument itself (return state), "assets" when it is a new object
\* holding the same assets array ({...state, x}), "none" when the assets
\* array is new too (state.assets.slice()).
reducerShares(s, action) ==
    CASE action.type \in {"select", "filter", "set_lod"} -> "assets"
      [] action.type = "compress_selected" ->
            IF Falsy(s.selectedId) THEN "state"
            ELSE IF findIndex(s.assets, s.selectedId) = -1 THEN "state"
            ELSE "none"
      [] OTHER -> "state"

\* the reducer applied to a sequence of dispatched actions, first to last
RECURSIVE dispatchAll(_, _)
dispatchAll(s, actions) ==
    IF actions = <<>> THEN s
    ELSE dispatchAll(reducer(s, Head(actions)), Tail(actions))

\* useReducer(reducer, {assets: INITIAL_ASSETS, selectedId: INITIAL_ASSETS[0].id, ...})
initialState(assets, selectedId) ==
    [assets |-> assets, selectedId |-> selectedId, filter |-> <<>>, lod |-> "HIGH"]

----------------------------------------------------------------------------
(* JavaScript strings *)

UpperCase == <<"A","B","C","D","E","F","G","H","I","J","K","L","M",
               "N","O","P","Q","R","S","T","U","V","W","X","Y","Z">>
LowerCase == <<"a","b","c","d","e","f","g","h","i","j","k","l","m",
               "n","o","p","q","r","s","t","u","v","w","x","y","z">>

lowerChar(c) ==
    IF \E i \in 1..Len(UpperCase) : UpperCase[i] = c
    THEN LowerCase[CHOOSE i \in 1..Len(UpperCase) : UpperCase[i] = c]
    ELSE c

\* String.prototype.toLowerCase
toLowerCase(s) == [i \in 1..Len(s) |-> lowerChar(s[i])]

\* the white space String.prototype.trim removes: space, tab, line terminators
WhiteSpace == {" ", "\t", "\n", "\r"}

\* String.prototype.trim: the white space at both ends removed
RECURSIVE trimStart(_)
trimStart(s) == IF s # <<>> /\ Head(s) \in WhiteSpace THEN trimStart(Tail(s)) ELSE s
RECURSIVE trimEnd(_)
trimEnd(s) ==
    IF s # <<>> /\ s[Len(s)] \in WhiteSpace
    THEN trimEnd(SubSeq(s, 1, Len(s) - 1)) ELSE s
trim(s) == trimEnd(trimStart(s))

\* String.prototype.includes
includes(s, q) ==
    \E i \in 0..(Len(s) - Len(q)) : SubSeq(s, i + 1, i + Len(q)) = q

\* the collation key of a character: white space before the letters, a
\* letter where its lower case is
charRank ==
    [c \in {" "} \cup {UpperCase[i] : i \in 1..Len(UpperCase)}
                 \cup {LowerCase[i] : i \in 1..Len(LowerCase)} |->
        IF c = " " THEN 0
        ELSE CHOOSE i \in 1..Len(LowerCase) : LowerCase[i] = lowerChar(c)]

\* String.prototype.localeCompare on names of letters and spaces: negative,
\* zero or positive; the letters decide, and between two names with the
\* same letters the one with the lower case at the first difference is first
RECURSIVE localeCompare(_, _)
localeCompare(a, b) ==
    IF a = <<>> \/ b = <<>> THEN Len(a) - Len(b)
    ELSE IF charRank[Head(a)] # charRank[Head(b)]
    THEN charRank[Head(a)] - charRank[Head(b)]
    ELSE LET rest == localeCompare(Tail(a), Tail(b))
         IN  IF rest # 0 \/ Head(a) = Head(b) THEN rest
             ELSE IF lowerChar(Head(a)) = Head(a) THEN -1 ELSE 1

----------------------------------------------------------------------------
(* hooks/useAssetFilterSort *)

\* the match as it would be on the name alone
matches_nameOnly(a, q) == includes(toLowerCase(a.name), q)

matches(a, q) ==
    \/ includes(toLowerCase(a.name), q)
    \/ \E t \in 1..Len(a.tags) : includes(toLowerCase(a.tags[t]), q)
    \/ (a.category # null /\ includes(toLowerCase(a.category), q))

\* the filter as it would be without the trim of the query
filtered_noTrim(assets, query) ==
    LET q == toLowerCase(query)
    IN  IF q = <<>> THEN assets
        ELSE SelectSeq(assets, LAMBDA a : matches(a, q))

filtered(assets, query) ==
    LET q == toLowerCase(trim(query))
    IN  IF q = <<>> THEN assets
        ELSE SelectSeq(assets, LAMBDA a : matches(a, q))

\* Date.parse on the timestamps in use, <<>> for NaN. The value is kept in
\* minutes (every timestamp here is on a whole minute; the code's value is
\* this one times 60000), so that differences keep their sign and fit
DateParse(createdAt) ==
    CASE createdAt = "2025-09-01T12:00:00Z" -> << 29278800 >>
      [] createdAt = "2025-08-21T09:00:00Z" -> << 29262780 >>
      [] createdAt = "2025-07-15T17:30:00Z" -> << 29210010 >>
      [] createdAt = "2025-06-01T00:00:00Z" -> << 29145600 >>
      [] createdAt = "2025-05-25T08:00:00Z" -> << 29136000 >>
      [] createdAt = "2025-01-01T00:00:00Z" -> << 28928160 >>
      [] OTHER -> << >>

\* byDate: ta - tb or tb - ta, <<>> for NaN (a difference with a NaN operand)
byDate(a, b, dir) ==
    LET ta == DateParse(a.createdAt)
        tb == DateParse(b.createdAt)
    IN  IF ta = <<>> \/ tb = <<>> THEN << >>
        ELSE IF dir = "asc" THEN << ta[1] - tb[1] >> ELSE << tb[1] - ta[1] >>

\* the comparator handed to arr.sort, as the sort reads it: a NaN result
\* counts as +0
compare(a, b, sortKey, dir) ==
    IF sortKey = "name"
    THEN IF dir = "asc" THEN localeCompare(a.name, b.name)
         ELSE localeCompare(b.name, a.name)
    ELSE IF sortKey = "polyCount"
    THEN IF dir = "asc" THEN a.polyCount - b.polyCount
         ELSE b.polyCount - a.polyCount
    ELSE IF byDate(a, b, dir) = <<>> THEN 0 ELSE byDate(a, b, dir)[1]

\* Array.prototype.sort is stable: x goes behind every element it does not
\* sort strictly before
RECURSIVE insertSorted(_, _, _, _)
insertSorted(sorted, x, sortKey, dir) ==
    IF sorted = <<>> THEN <<x>>
    ELSE IF compare(x, Head(sorted), sortKey, dir) < 0 THEN <<x>> \o sorted
    ELSE <<Head(sorted)>> \o insertSorted(Tail(sorted), x, sortKey, dir)

RECURSIVE sortBy(_, _, _)
sortBy(arr, sortKey, dir) ==
    IF arr = <<>> THEN <<>>
    ELSE insertSorted(sortBy(SubSeq(arr, 1, Len(arr) - 1), sortKey, dir),
                      arr[Len(arr)], sortKey, dir)

list(assets, query, sortKey, dir) == sortBy(filtered(assets, query), sortKey, dir)

\* whether the comparator is a consistent comparator for the elements of arr
\* (ECMAScript, Array.prototype.sort): reflexive, antisymmetric, transitive
consistent(arr, sortKey, dir) ==
    LET c(i, j) == compare(arr[i], arr[j], sortKey, dir)
        I == 1..Len(arr)
    IN  /\ \A i \in I : c(i, i) = 0
        /\ \A i, j \in I : (c(i, j) < 0) = (c(j, i) > 0)
        /\ \A i, j, k \in I :
              /\ (c(i, j) = 0 /\ c(j, k) = 0) => c(i, k) = 0
              /\ (c(i, j) < 0 /\ c(j, k) < 0) => c(i, k) < 0

\* every arrangement of the elements of arr
permutations(arr) ==
    { [i \in 1..Len(arr) |-> arr[p[i]]] :
        p \in { f \in [1..Len(arr) -> 1..Len(arr)] :
                   \A i, j \in 1..Len(arr) : f[i] = f[j] => i = j } }

\* what arr.sort may leave in arr: the stable order under a consistent
\* comparator, an order the engine chooses under any other
sortOutcomes(arr, sortKey, dir) ==
    IF consistent(arr, sortKey, dir) THEN { sortBy(arr, sortKey, dir) }
    ELSE permutations(arr)

----------------------------------------------------------------------------
(* App.tsx: the derived values *)

\* useAssetFilterSort(assets, filter, "name", "asc")
appList(s) == list(s.assets, s.filter, "name", "asc")

\* list.find((a) => a.id === selectedId) ?? null
\* Array.prototype.find on the id, null for undefined
find(l, id) ==
    IF findIndex(l, id) = -1 THEN null ELSE l[findIndex(l, id)]

selected(s) == find(appList(s), s.selectedId)

\* applyLOD as it would be with its two dispatches in the other order
applyLOD_swapped(next) ==
    << [type |-> "compress_selected", lod |-> next],
       [type |-> "set_lod", lod |-> next] >>

\* applyLOD(next): the two dispatches of a completion, in their order
applyLOD(next) ==
    << [type |-> "set_lod", lod |-> next],
       [type |-> "compress_selected", lod |-> next] >>

----------------------------------------------------------------------------
(* hooks/useCompressionJob *)

ProgressStep == 12
ProgressMax == 100

\* (p) => Math.min((p ?? 0) + 12, 100)
tickProgress(p) ==
    << Min((IF p = <<>> THEN 0 ELSE p[1]) + ProgressStep, ProgressMax) >>

----------------------------------------------------------------------------
(* Exact fractions: [num, den] in lowest terms with den > 0; den = 0 is an *)
(* infinity of the sign of num, as a JavaScript division by zero gives     *)

RECURSIVE Gcd(_, _)
Gcd(a, b) == IF b = 0 THEN a ELSE Gcd(b, a % b)

Abs(n) == IF n < 0 THEN -n ELSE n

Q(n, d) ==
    IF d = 0 THEN [num |-> IF n > 0 THEN 1 ELSE IF n < 0 THEN -1 ELSE 0, den |-> 0]
    ELSE LET g == Gcd(Abs(n), Abs(d))
         IN  [num |-> (IF d < 0 THEN -n ELSE n) \div g, den |-> Abs(d) \div g]

QAdd(a, b) == Q(a.num * b.den + b.num * a.den, a.den * b.den)
QSub(a, b) == Q(a.num * b.den - b.num * a.den, a.den * b.den)
QMul(a, b) == Q(a.num * b.num, a.den * b.den)
QDiv(a, b) == Q(a.num * b.den, a.den * b.num)

\* a < b, the infinities below and above every fraction
QLess(a, b) ==
    IF a.den = 0 \/ b.den = 0
    THEN (IF a.den = 0 THEN a.num ELSE 0) < (IF b.den = 0 THEN b.num ELSE 0)
    ELSE a.num * b.den < b.num * a.den

QMax(a, b) == IF QLess(a, b) THEN b ELSE a
QMin(a, b) == IF QLess(b, a) THEN b ELSE a

----------------------------------------------------------------------------
(* three: Vector3, Object3D, Box3 *)

\* new THREE.Vector3(x, y, z) on whole numbers
Vector3(x, y, z) == << Q(x, 1), Q(y, 1), Q(z, 1) >>

\* Vector3.sub, Vector3.add, Vector3.multiplyScalar
sub(a, b) == [i \in 1..3 |-> QSub(a[i], b[i])]
add(a, b) == [i \in 1..3 |-> QAdd(a[i], b[i])]
multiplyScalar(a, k) == [i \in 1..3 |-> QMul(a[i], k)]

\* an Object3D without parent: its own transform and the vertices of the
\* meshes below it, in its local frame
Object3D(position, rotation, scale, points) ==
    [uuid |-> "scene", position |-> position, rotation |-> rotation,
     scale |-> scale, points |-> points]

\* the clone as it would be if it handed back the source graph itself
skeletonClone_shared(source) == source

\* SkeletonUtils.clone: a deep copy, a graph of its own (an object with a
\* uuid of its own) equal to the source in everything else
skeletonClone(source) == [source EXCEPT !.uuid = "clone"]

\* matrixWorld of a root without parent applied to a local point, for the
\* rotation (0, 0, 0): the point scaled, then moved by position
applyMatrixWorld(root, p) ==
    [i \in 1..3 |-> QAdd(root.position[i], QMul(root.scale[i], p[i]))]

\* new THREE.Box3(): empty, min at +Infinity and max at -Infinity
Box3 == [min |-> << Q(1, 0), Q(1, 0), Q(1, 0) >>,
         max |-> << Q(-1, 0), Q(-1, 0), Q(-1, 0) >>]

\* Box3.expandByPoint over the world positions of the vertices
RECURSIVE expandByPoints(_, _)
expandByPoints(box, ps) ==
    IF ps = {} THEN box
    ELSE LET p == CHOOSE x \in ps : TRUE
         IN  expandByPoints([min |-> [i \in 1..3 |-> QMin(box.min[i], p[i])],
                             max |-> [i \in 1..3 |-> QMax(box.max[i], p[i])]],
                            ps \ {p})

\* Box3.setFromObject(root)
setFromObject(root) ==
    expandByPoints(Box3, {applyMatrixWorld(root, p) : p \in root.points})

\* Box3.isEmpty, getSize, getCenter: size and center of an empty box are 0
isEmpty(box) == \E i \in 1..3 : QLess(box.max[i], box.min[i])
getSize(box) == IF isEmpty(box) THEN Vector3(0, 0, 0) ELSE sub(box.max, box.min)
getCenter(box) ==
    IF isEmpty(box) THEN Vector3(0, 0, 0)
    ELSE multiplyScalar(add(box.min, box.max), Q(1, 2))

----------------------------------------------------------------------------
(* Viewer/GLTFAsset *)

\* const TARGET_SIZE = 1.5
TARGET_SIZE == Q(3, 2)

\* the guard as it would be on the x size alone
maxDimOf_xOnly(size) == IF size[1].num = 0 THEN Q(1, 1) ELSE size[1]

\* the largest size as it would be without the guard
maxDimOf_noGuard(size) == QMax(size[1], QMax(size[2], size[3]))

\* Math.max(size.x, size.y, size.z) || 1
maxDimOf(size) ==
    LET m == QMax(size[1], QMax(size[2], size[3]))
    IN  IF m.num = 0 THEN Q(1, 1) ELSE m

\* the clone with its top-level transform reset, as it is measured
resetRoot(source) ==
    [skeletonClone(source) EXCEPT !.position = Vector3(0, 0, 0),
                                  !.rotation = Vector3(0, 0, 0),
                                  !.scale = Vector3(1, 1, 1)]

\* the body of the useMemo: the root it returns
normalizedOf(source) ==
    LET root == resetRoot(source)
        box == setFromObject(root)
        center == getCenter(box)
        maxDim == maxDimOf(getSize(box))
        s == QDiv(TARGET_SIZE, maxDim)
    IN  [root EXCEPT !.position = sub(root.position, center),
                     !.scale = << s, s, s >>]

----------------------------------------------------------------------------
(* The application: user events, timers and React's commit of a transition *)

\* what is typed into the search input
Typed == { <<>>, <<"h","e","r","o">> }

Init ==
    /\ state = initialState(INITIAL_ASSETS, INITIAL_ASSETS[1].id)
    /\ progress = <<>>
    /\ isPending = FALSE
    /\ timers = {}
    /\ timeouts = <<>>
    /\ runs = 0
    /\ dispatched = 0
    /\ scene = null
    /\ normalized = null
    /\ last = [op |-> "init"]

\* AssetCard: onClick={() => onSelect(asset.id)} on a card of the list
idsOf(l) == {l[i].id : i \in 1..Len(l)}

\* the click as it would be with the cards disabled while a job runs
SelectFrom_blocked(l) ==
    /\ timeouts = <<>>
    /\ \E id \in idsOf(l) :
          /\ state' = reducer(state, [type |-> "select", id |-> id])
          /\ last' = [op |-> "select", id |-> id, moved |-> id # state.selectedId]
          /\ UNCHANGED <<progress, isPending, timers, timeouts, runs, dispatched,
                         scene, normalized>>

\* AssetList over the list l: a click on one of its cards
SelectFrom(l) ==
    \E id \in idsOf(l) :
        LET action == [type |-> "select", id |-> id]
        IN  /\ state' = reducer(state, action)
            /\ last' = [op |-> "select", id |-> id, moved |-> id # state.selectedId]
            /\ UNCHANGED <<progress, isPending, timers, timeouts, runs, dispatched,
                           scene, normalized>>

\* <AssetList assets={list} onSelect={(id) => dispatch({ type: "select", id })} />
Select == SelectFrom(appList(state))

\* the search input: onChange={(e) => dispatch({ type: "filter", q: e.target.value })}
Filter ==
    \E q \in Typed :
        LET action == [type |-> "filter", q |-> q]
        IN  /\ state' = reducer(state, action)
            /\ last' = [op |-> "filter", q |-> q]
            /\ UNCHANGED <<progress, isPending, timers, timeouts, runs, dispatched,
                   scene, normalized>>

\* LODSelect onChange -> run(next): setProgress(0), a new interval timer, and
\* the completion scheduled by setTimeout inside startTransition. The select
\* shows value={lod}, and a change event needs an option other than the one
\* shown
Run ==
    \E next \in LOD \ {state.lod} :
        /\ runs < MaxRuns
        /\ runs' = runs + 1
        /\ progress' = <<0>>
        /\ timers' = timers \cup {runs'}
        /\ isPending' = TRUE
        /\ timeouts' = Append(timeouts, [timer |-> runs', next |-> next])
        /\ last' = [op |-> "run", timer |-> runs', next |-> next]
        /\ UNCHANGED <<state, dispatched, scene, normalized>>

\* an interval timer fires: setProgress((p) => Math.min((p ?? 0) + 12, 100))
Tick ==
    \E t \in timers :
        /\ progress' = tickProgress(progress)
        /\ last' = [op |-> "tick", timer |-> t]
        /\ UNCHANGED <<state, isPending, timers, timeouts, runs, dispatched,
                   scene, normalized>>

\* the completion as it would be if the newest timeout fired first
Complete_newestFirst ==
    /\ timeouts # <<>>
    /\ LET job == timeouts[Len(timeouts)]
       IN  /\ state' = dispatchAll(state, applyLOD(job.next))
           /\ timers' = timers \ {job.timer}
           /\ progress' = <<>>
           /\ timeouts' = SubSeq(timeouts, 1, Len(timeouts) - 1)
           /\ last' = [op |-> "complete", timer |-> job.timer, next |-> job.next,
                       before |-> state,
                       afterMove |-> (last.op = "select" /\ last.moved),
                       actions |-> applyLOD(job.next)]
    /\ UNCHANGED <<isPending, runs, dispatched, scene, normalized>>

\* the completion as it would be if it waited for the bar to fill
Complete_whenFull ==
    /\ progress = <<ProgressMax>>
    /\ timeouts # <<>>
    /\ state' = dispatchAll(state, applyLOD(Head(timeouts).next))
    /\ timers' = timers \ {Head(timeouts).timer}
    /\ progress' = <<>>
    /\ timeouts' = Tail(timeouts)
    /\ last' = [op |-> "complete", timer |-> Head(timeouts).timer,
                next |-> Head(timeouts).next, before |-> state,
                afterMove |-> (last.op = "select" /\ last.moved),
                actions |-> applyLOD(Head(timeouts).next)]
    /\ UNCHANGED <<isPending, runs, dispatched, scene, normalized>>

\* the oldest setTimeout fires (all have the same delay):
\* onApply(next); clearInterval(timer); setProgress(null)
Complete ==
    /\ timeouts # <<>>
    /\ LET job == Head(timeouts)
       IN  /\ state' = dispatchAll(state, applyLOD(job.next))
           /\ timers' = timers \ {job.timer}
           /\ progress' = <<>>
           /\ timeouts' = Tail(timeouts)
           /\ last' = [op |-> "complete", timer |-> job.timer, next |-> job.next,
                       before |-> state,
                       afterMove |-> (last.op = "select" /\ last.moved),
                       actions |-> applyLOD(job.next)]
    /\ UNCHANGED <<isPending, runs, dispatched,
                   scene, normalized>>

\* React commits the transition started by startTransition: its scope held
\* no state update (only the setTimeout call), so nothing keeps it pending
TransitionCommit ==
    /\ isPending
    /\ isPending' = FALSE
    /\ last' = [op |-> "transition"]
    /\ UNCHANGED <<state, progress, timers, timeouts, runs, dispatched,
                   scene, normalized>>

Next == Select \/ Filter \/ Run \/ Tick \/ Complete \/ TransitionCommit

Spec == Init /\ [][Next]_vars

----------------------------------------------------------------------------
(* The job hook with nobody browsing: runs, ticks and completions. The     *)
(* runtime fires every timeout that was set, so a pending completion does  *)
(* not wait for ever                                                        *)

NextJob == Run \/ Tick \/ Complete \/ TransitionCommit

SpecJob == Init /\ [][NextJob]_vars /\ WF_vars(Complete)

----------------------------------------------------------------------------
(* The reducer taken alone, on every action its type admits and on the     *)
(* levels and ids a cast lets through                                      *)

sampleAsset(id, name, polyCount, sizeMB) ==
    [id |-> id, name |-> name, polyCount |-> polyCount, sizeMB |-> sizeMB,
     tags |-> << >>, createdAt |-> "2025-01-01T00:00:00Z", shape |-> "box",
     color |-> null, category |-> null, gltfUrl |-> null]

SampleAssets ==
    << sampleAsset("1", <<"B","i","g">>, 1000000, 500),
       sampleAsset("2", <<"M","i","d">>, 50000, 100),
       sampleAsset("3", <<"T","i","n","y">>, 5000, 10) >>

Catalogs == {INITIAL_ASSETS, SampleAssets}

\* the ids dispatched: those of the catalogs, one of no asset, the empty string
Ids == {"1", "2", "3", "4", "9", ""}

Levels == LOD \cup {UnknownLOD}

Queries == { <<>>, <<"h","e","r","o">>, <<" ","P","R","O","P"," ">> }

InitReducer ==
    /\ \E assets \in Catalogs, id \in {null, "1"} : state = initialState(assets, id)
    /\ progress = <<>>
    /\ isPending = FALSE
    /\ timers = {}
    /\ timeouts = <<>>
    /\ runs = 0
    /\ dispatched = 0
    /\ scene = null
    /\ normalized = null
    /\ last = [op |-> "init"]

\* what a dispatch leaves behind apart from the new state
Recorded(action) ==
    /\ dispatched' = dispatched + 1
    /\ last' = [op |-> "dispatch", action |-> action, before |-> state,
                shares |-> reducerShares(state, action), outcome |-> "returned"]
    /\ UNCHANGED <<progress, isPending, timers, timeouts, runs,
                   scene, normalized>>

DispatchSelect ==
    \E id \in Ids :
        /\ dispatched < MaxDispatch
        /\ state' = reducer(state, [type |-> "select", id |-> id])
        /\ Recorded([type |-> "select", id |-> id])

DispatchFilter ==
    \E q \in Queries :
        /\ dispatched < MaxDispatch
        /\ state' = reducer(state, [type |-> "filter", q |-> q])
        /\ Recorded([type |-> "filter", q |-> q])

DispatchSetLod ==
    \E lod \in Levels :
        /\ dispatched < MaxDispatch
        /\ state' = reducer(state, [type |-> "set_lod", lod |-> lod])
        /\ Recorded([type |-> "set_lod", lod |-> lod])

DispatchCompress ==
    \E lod \in Levels :
        /\ dispatched < MaxDispatch
        /\ state' = reducer(state, [type |-> "compress_selected", lod |-> lod])
        /\ Recorded([type |-> "compress_selected", lod |-> lod])

\* an action of no type the reducer knows
DispatchOther ==
    /\ dispatched < MaxDispatch
    /\ state' = reducer(state, [type |-> "reset"])
    /\ Recorded([type |-> "reset"])

NextReducer ==
    DispatchSelect \/ DispatchFilter \/ DispatchSetLod \/ DispatchCompress
        \/ DispatchOther

SpecReducer == InitReducer /\ [][NextReducer]_vars

----------------------------------------------------------------------------
(* One asset compressed again and again, at any mix of levels. A compress  *)
(* writes the selected asset alone, so the values an asset can take are    *)
(* those it takes with the selection held on it                            *)

\* assets at the floors and just above them
EdgeAssets ==
    << sampleAsset("1", <<"F","l","o","o","r">>, 10000, 20),
       sampleAsset("2", <<"N","e","a","r">>, 10001, 21),
       sampleAsset("3", <<"H","a","l","f">>, 14285, 500),
       sampleAsset("4", <<"T","h","i","n">>, 1000000, 25) >>

InitCompress ==
    /\ \E id \in idsOf(INITIAL_ASSETS) : state = initialState(INITIAL_ASSETS, id)
    /\ progress = <<>>
    /\ isPending = FALSE
    /\ timers = {}
    /\ timeouts = <<>>
    /\ runs = 0
    /\ dispatched = 0
    /\ scene = null
    /\ normalized = null
    /\ last = [op |-> "init"]

InitConverge ==
    /\ \E assets \in {INITIAL_ASSETS, EdgeAssets}, id \in idsOf(INITIAL_ASSETS) :
          state = initialState(assets, id)
    /\ progress = <<>>
    /\ isPending = FALSE
    /\ timers = {}
    /\ timeouts = <<>>
    /\ runs = 0
    /\ dispatched = 0
    /\ scene = null
    /\ normalized = null
    /\ last = [op |-> "init"]

\* onApply(next) of a completion: set_lod, then compress_selected
Apply ==
    \E next \in LOD :
        /\ state' = dispatchAll(state, applyLOD(next))
        /\ last' = [op |-> "apply", next |-> next, before |-> state]
        /\ UNCHANGED <<progress, isPending, timers, timeouts, runs, dispatched,
                       scene, normalized>>

NextCompress == Apply

SpecCompress == InitCompress /\ [][NextCompress]_vars

\* the asset is compressed again and again
SpecConverge == InitConverge /\ [][NextCompress]_vars /\ WF_vars(Apply)

----------------------------------------------------------------------------
(* useAssetFilterSort taken alone, on catalogs whose assets share names,    *)
(* polygon counts and dates, and with a date that does not parse            *)

SortPool ==
    << sampleAsset("1", <<"L","a","m","p">>, 300000, 40),
       sampleAsset("2", <<"L","a","m","p">>, 300000, 40),
       [sampleAsset("3", <<"A","r","c","h">>, 900000, 90)
           EXCEPT !.createdAt = "not a date",
                  !.tags = << <<"s","t","r","e","e","t">>, <<"L","a","m","p","s">> >>],
       [sampleAsset("4", <<"V","a","s","e">>, 100000, 25)
           EXCEPT !.createdAt = "2025-06-01T00:00:00Z",
                  !.category = <<"l","a","m","p","s","h","a","d","e">>] >>

\* the catalogs: the seed data and every arrangement of at most MaxCatalog
\* assets of the pool
SortCatalogs ==
    {INITIAL_ASSETS} \cup
    UNION { { [i \in 1..n |-> SortPool[f[i]]] :
                f \in { g \in [1..n -> 1..Len(SortPool)] :
                           \A i, j \in 1..n : g[i] = g[j] => i = j } } :
            n \in 0..Min(MaxCatalog, Len(SortPool)) }

SortQueries ==
    { <<>>, <<" ","\t"," ">>, <<"h","e","r","o">>, <<"L","i","g","h","t">>,
      <<"F","I","L","M"," ">>, <<" ","l","a","m","p">>, <<"z","z">> }

SortKeys == {"name", "polyCount", "createdAt"}
Dirs == {"asc", "desc"}

\* the arguments of the hook: the assets and the query as the state holds
\* them, the sort key and the direction as props
InitFilterSort ==
    /\ \E assets \in SortCatalogs, query \in SortQueries :
          state = [initialState(assets, null) EXCEPT !.filter = query]
    /\ progress = <<>>
    /\ isPending = FALSE
    /\ timers = {}
    /\ timeouts = <<>>
    /\ runs = 0
    /\ dispatched = 0
    /\ scene = null
    /\ normalized = null
    /\ \E sortKey \in SortKeys, dir \in Dirs :
          last = [op |-> "props", sortKey |-> sortKey, dir |-> dir]

\* a render calls useAssetFilterSort(assets, query, sortKey, dir): the
\* filtered memo, then the copy of it sorted in place
UseAssetFilterSort ==
    \E arr \in sortOutcomes(filtered(state.assets, state.filter),
                            last.sortKey, last.dir) :
        /\ last' = [op |-> "useAssetFilterSort", query |-> state.filter,
                    sortKey |-> last.sortKey, dir |-> last.dir,
                    filtered |-> filtered(state.assets, state.filter),
                    list |-> arr]
        /\ UNCHANGED <<state, progress, isPending, timers, timeouts, runs,
                       dispatched, scene, normalized>>

NextFilterSort == UseAssetFilterSort

SpecFilterSort == InitFilterSort /\ [][NextFilterSort]_vars

----------------------------------------------------------------------------
(* GLTFAsset taken alone: a loaded scene and the useMemo that normalizes it *)

\* the vertices a loaded model is made of
PointPool ==
    { <<0, 0, 0>>, <<2, 4, 8>>, <<-1, -2, -4>>, <<1, 2, 4>>,
      <<1, 0, 0>>, <<3, 0, 0>>, <<0, 6, 0>>, <<-2, 0, 3>> }

\* the loaded models: no geometry, a single vertex, up to MaxPoints vertices
Geometries ==
    { { Vector3(p[1], p[2], p[3]) : p \in ps } :
        ps \in { x \in SUBSET PointPool : Cardinality(x) <= MaxPoints } }

\* the top-level transform a file gives its scene: none, or one of its own
RootTransforms ==
    { Object3D(Vector3(0, 0, 0), Vector3(0, 0, 0), Vector3(1, 1, 1), {}),
      Object3D(Vector3(5, 0, -1), Vector3(0, 1, 0), Vector3(2, 2, 2), {}) }

Scenes == { [t EXCEPT !.points = g] : t \in RootTransforms, g \in Geometries }

InitNormalize ==
    /\ state = initialState(INITIAL_ASSETS, INITIAL_ASSETS[2].id)
    /\ progress = <<>>
    /\ isPending = FALSE
    /\ timers = {}
    /\ timeouts = <<>>
    /\ runs = 0
    /\ dispatched = 0
    /\ scene \in Scenes
    /\ normalized = null
    /\ last = [op |-> "init"]

\* a render of GLTFAsset runs the useMemo on the scene that useGLTF caches
\* for the url: the writes to root reach the cached scene when root is that
\* very object
Normalize ==
    /\ normalized' = normalizedOf(scene)
    /\ scene' = IF normalizedOf(scene).uuid = scene.uuid
                THEN normalizedOf(scene) ELSE scene
    /\ last' = [op |-> "normalize",
                maxDim |-> maxDimOf(getSize(setFromObject(resetRoot(scene)))),
                again |-> (last.op = "normalize")]
    /\ UNCHANGED <<state, progress, isPending, timers, timeouts, runs,
                   dispatched>>

NextNormalize == Normalize

SpecNormalize == InitNormalize /\ [][NextNormalize]_vars

----------------------------------------------------------------------------
(* Properties *)

\* the last step was the completion of a job
Completed == last.op = "complete"

\* the last step was a dispatch of an action of this type to the reducer
Dispatched(type) == last.op = "dispatch" /\ last.action.type = type

\* the positions of the assets with this id
Holding(assets, id) == {i \in 1..Len(assets) : assets[i].id = id}

\* C1: when run(B) is invoked before the completion of an earlier run(A) has
\* fired, only B's completion commits: the completion of a superseded job
\* never dispatches, so every completion that fires is that of the most
\* recently invoked run.
C1_OnlyNewestJobCommits == Completed => last.timer = runs

\* C2: at most one job is live at any time: at most one pending completion
\* callback and at most one active tick timer.
C2_AtMostOneJobLive == Len(timeouts) <= 1 /\ Cardinality(timers) <= 1

\* C3: a completion dispatches setQuality(target) and then compress(target),
\* and compress resolves the selection of the time of the completion: the
\* asset selected then is compressed at the target level, every other asset
\* (the one selected when run was invoked among them) is left as it was,
\* and the quality is the target.
C3_CompletionCommitsOnCurrentSelection ==
    Completed =>
        /\ last.actions = << [type |-> "set_lod", lod |-> last.next],
                             [type |-> "compress_selected", lod |-> last.next] >>
        /\ state.lod = last.next
        /\ state.selectedId = last.before.selectedId
        /\ state.filter = last.before.filter
        /\ Len(state.assets) = Len(last.before.assets)
        /\ \A i \in 1..Len(state.assets) :
              state.assets[i] =
                  IF i \in Holding(last.before.assets, last.before.selectedId)
                  THEN simulateCompression(last.before.assets[i], last.next)
                  ELSE last.before.assets[i]

\* C3 witness: the selection changed to Y while the job was in flight (the
\* step before its completion), and the completion changed asset Y and no
\* other asset
C3_Witness ==
    /\ Completed
    /\ last.afterMove
    /\ \E y \in Holding(state.assets, last.before.selectedId) :
            /\ state.assets[y] # last.before.assets[y]
            /\ \A x \in 1..Len(state.assets) \ {y} :
                  state.assets[x] = last.before.assets[x]

\* C4: the pending flag is true in every state from the invocation of run
\* until the completion of that job commits.
C4_PendingSpansJob == timeouts # <<>> => isPending

\* C5: compress(level) on a state whose selectedId is null or is the id of
\* no asset returns the very same state: the same object, no field changed,
\* no new asset sequence, and no error.
C5_CompressUnresolvedIsNoOp ==
    (Dispatched("compress_selected")
        /\ Holding(last.before.assets, last.before.selectedId) = {}) =>
            /\ state = last.before
            /\ last.shares = "state"
            /\ last.outcome = "returned"

\* C5 witness: compress was dispatched while the selection was the id of no asset
C5_Witness ==
    /\ Dispatched("compress_selected")
    /\ last.before.selectedId = "9"
    /\ state = last.before

\* C6: select(id) sets selectedId to id whatever the id, one of no asset
\* included, and changes nothing else; the selection then resolves to null
\* when no asset has that id.
C6_SelectIsUnconditional ==
    /\ Dispatched("select") =>
          /\ state = [last.before EXCEPT !.selectedId = last.action.id]
          /\ last.outcome = "returned"
    /\ Holding(state.assets, state.selectedId) = {} => selected(state) = null

\* C6 witness: an id of no asset was selected and resolves to null
C6_Witness ==
    /\ Dispatched("select")
    /\ last.action.id = "9"
    /\ state.selectedId = "9"
    /\ selected(state) = null

\* the factors of C7, as the claim lists them
C7_g(level) ==
    CASE level = "HIGH" -> [num |-> 7, den |-> 10]
      [] level = "MED" -> [num |-> 4, den |-> 10]
      [] level = "LOW" -> [num |-> 2, den |-> 10]

C7_t(level) ==
    CASE level = "HIGH" -> [num |-> 8, den |-> 10]
      [] level = "MED" -> [num |-> 5, den |-> 10]
      [] level = "LOW" -> [num |-> 25, den |-> 100]

\* C7: for every asset and every level of HIGH, MED, LOW the transform gives
\* polyCount' = max(10000, round(polyCount x g)) and sizeMB' = max(20,
\* round(sizeMB x t)), g = 0.7/0.4/0.2 and t = 0.8/0.5/0.25 (round and x are
\* Math.round and the product of doubles), and changes no other field; HIGH
\* on (1000000, 500) gives (700000, 400).
C7_TransformFormula ==
    (Dispatched("compress_selected") /\ last.action.lod \in LOD) =>
        \A i \in Holding(last.before.assets, last.before.selectedId) :
            LET a == last.before.assets[i]
                level == last.action.lod
            IN  /\ state.assets[i] =
                      [a EXCEPT
                          !.polyCount = Max(10000, MathRoundProduct(a.polyCount, C7_g(level))),
                          !.sizeMB = Max(20, MathRoundProduct(a.sizeMB, C7_t(level)))]
                /\ (level = "HIGH" /\ a.polyCount = 1000000 /\ a.sizeMB = 500) =>
                      (state.assets[i].polyCount = 700000 /\ state.assets[i].sizeMB = 400)

\* C7 witness: HIGH was applied to (1000000, 500)
C7_Witness ==
    /\ Dispatched("compress_selected")
    /\ last.action.lod = "HIGH"
    /\ \E i \in Holding(last.before.assets, last.before.selectedId) :
          /\ last.before.assets[i].polyCount = 1000000
          /\ last.before.assets[i].sizeMB = 500
          /\ state.assets[i].polyCount = 700000
          /\ state.assets[i].sizeMB = 400

\* C8: after a compress that resolves a selection the compressed asset has
\* polyCount >= 10000 and sizeMB >= 20, whatever it had before and whatever
\* the level; and no polyCount or sizeMB is negative in any state.
C8_FloorsAndNonNegative ==
    /\ Dispatched("compress_selected") =>
          \A i \in Holding(last.before.assets, last.before.selectedId) :
              state.assets[i].polyCount >= 10000 /\ state.assets[i].sizeMB >= 20
    /\ \A i \in 1..Len(state.assets) :
          state.assets[i].polyCount >= 0 /\ state.assets[i].sizeMB >= 0

\* C8 witness: an asset below both floors was compressed
C8_Witness ==
    /\ Dispatched("compress_selected")
    /\ \E i \in Holding(last.before.assets, last.before.selectedId) :
          /\ last.before.assets[i].polyCount < 10000
          /\ last.before.assets[i].sizeMB < 20
          /\ state.assets[i].polyCount = 10000
          /\ state.assets[i].sizeMB = 20

\* C9: the transform works on the current value and is not idempotent: a
\* compress at a level of HIGH, MED, LOW makes each value smaller than it
\* was unless it puts it on its floor, the same level again included; LOW
\* on (50000, 100) gives (10000, 25) and LOW on that gives (10000, 20).
C9_Compounds ==
    (Dispatched("compress_selected") /\ last.action.lod \in LOD) =>
        \A i \in Holding(last.before.assets, last.before.selectedId) :
            LET a == last.before.assets[i]
                b == state.assets[i]
            IN  /\ b.polyCount < a.polyCount \/ b.polyCount = 10000
                /\ b.sizeMB < a.sizeMB \/ b.sizeMB = 20
                /\ (last.action.lod = "LOW" /\ a.polyCount = 50000 /\ a.sizeMB = 100) =>
                      (b.polyCount = 10000 /\ b.sizeMB = 25)
                /\ (last.action.lod = "LOW" /\ a.polyCount = 10000 /\ a.sizeMB = 25) =>
                      (b.polyCount = 10000 /\ b.sizeMB = 20)

\* C9 witness: LOW was applied to the result (10000, 25) of an earlier LOW
\* on (50000, 100) and changed it again
C9_Witness ==
    /\ Dispatched("compress_selected")
    /\ last.action.lod = "LOW"
    /\ \E i \in Holding(last.before.assets, last.before.selectedId) :
          /\ last.before.assets = [SampleAssets EXCEPT ![i].polyCount = 10000, ![i].sizeMB = 25]
          /\ SampleAssets[i].polyCount = 50000
          /\ last.before.assets[i].polyCount = 10000
          /\ last.before.assets[i].sizeMB = 25
          /\ state.assets[i].sizeMB = 20

\* C10: a dispatch of setQuality or compress with a level outside HIGH,
\* MED, LOW is a fatal failure: it does not return, and it leaves no trace
\* in the state.
C10_UnknownLevelFails ==
    (last.op = "dispatch"
        /\ last.action.type \in {"set_lod", "compress_selected"}
        /\ last.action.lod \notin LOD) =>
            /\ last.outcome = "thrown"
            /\ state = last.before

\* a render of the filter/sort hook was the last step
Rendered == last.op = "useAssetFilterSort"

\* the query is white space only, or empty
Blank(query) == \A i \in 1..Len(query) : query[i] \in WhiteSpace

\* C12: a query that is empty after trimming filters nothing out: the
\* filtered list is the input list, every asset in its input position
C12_BlankQueryKeepsAll ==
    (Rendered /\ Blank(last.query)) => last.filtered = state.assets

C12_Witness ==
    /\ Rendered
    /\ last.query # <<>>
    /\ Blank(last.query)
    /\ Len(state.assets) >= 2
    /\ last.filtered = state.assets

\* q occurs in text at some position, letter case apart
OccursIn(q, text) ==
    \E at \in 1..(Len(text) - Len(q) + 1) :
        \A k \in 1..Len(q) : lowerChar(text[at + k - 1]) = lowerChar(q[k])

\* the query with the white space at its ends dropped
Core(query) ==
    LET inner == {i \in 1..Len(query) : query[i] \notin WhiteSpace}
    IN  IF inner = {} THEN <<>>
        ELSE SubSeq(query, CHOOSE i \in inner : \A j \in inner : i <= j,
                           CHOOSE i \in inner : \A j \in inner : i >= j)

\* the assets of the catalog that the query names: in the name, in a tag or
\* in the category
Named(assets, q) ==
    { i \in 1..Len(assets) :
        \/ OccursIn(q, assets[i].name)
        \/ \E t \in 1..Len(assets[i].tags) : OccursIn(q, assets[i].tags[t])
        \/ (assets[i].category # null /\ OccursIn(q, assets[i].category)) }

\* C13: under a query that is not blank the filtered list holds an asset
\* exactly when the query occurs, letter case apart, in its name, in one of
\* its tags or in its category; "hero" on the seed catalog gives asset "1",
\* the one tagged hero, alone
C13_FilterIsSubstringMatch ==
    (Rendered /\ ~Blank(last.query)) =>
        /\ idsOf(last.filtered) =
              { state.assets[i].id : i \in Named(state.assets, Core(last.query)) }
        /\ Len(last.filtered) = Cardinality(Named(state.assets, Core(last.query)))
        /\ (state.assets = INITIAL_ASSETS /\ last.query = <<"h","e","r","o">>) =>
              /\ idsOf(last.filtered) = {"1"}
              /\ \E t \in 1..Len(last.filtered[1].tags) :
                    last.filtered[1].tags[t] = <<"h","e","r","o">>

\* a query in capitals with a trailing space that finds one asset by its
\* category alone, and one that finds assets by name, by tag and by category
C13_Witness ==
    /\ Rendered
    /\ \/ /\ state.assets = INITIAL_ASSETS
          /\ last.query = <<"F","I","L","M"," ">>
          /\ idsOf(last.filtered) = {"1"}
       \/ /\ last.query = <<" ","l","a","m","p">>
          /\ idsOf(last.filtered) = {"1", "3", "4"}
          /\ Len(state.assets) = 3

\* the position of the asset of that id in a list of assets with distinct ids
PositionOf(l, id) == CHOOSE i \in 1..Len(l) : l[i].id = id

\* whether two assets have the same key: the same name, the same polygon
\* count, or dates that parse to the same instant
SameKey(a, b, sortKey) ==
    CASE sortKey = "name" -> a.name = b.name
      [] sortKey = "polyCount" -> a.polyCount = b.polyCount
      [] OTHER -> /\ DateParse(a.createdAt) # <<>>
                  /\ DateParse(a.createdAt) = DateParse(b.createdAt)

\* C14: the sort is stable for every key and direction: two assets with
\* the same key are in the sorted list in the order they had in the
\* filtered list
C14_SortIsStable ==
    Rendered =>
        \A i, j \in 1..Len(last.list) :
            (i < j /\ SameKey(last.list[i], last.list[j], last.sortKey)) =>
                PositionOf(last.filtered, last.list[i].id)
                    < PositionOf(last.filtered, last.list[j].id)

\* C15: sorted by createdAt, in either direction, no asset whose date does
\* not parse is ahead of one whose date parses
C15_UnparsableDatesLast ==
    (Rendered /\ last.sortKey = "createdAt") =>
        \A i, j \in 1..Len(last.list) :
            (i < j /\ DateParse(last.list[i].createdAt) = <<>>) =>
                DateParse(last.list[j].createdAt) = <<>>

\* the useMemo of GLTFAsset was the last step
Normalized == last.op = "normalize"

\* the vertices of the scene along an axis, as whole numbers
CoordsOf(axis) == { p[axis].num : p \in scene.points }
LoOf(axis) == CHOOSE m \in CoordsOf(axis) : \A x \in CoordsOf(axis) : m <= x
HiOf(axis) == CHOOSE m \in CoordsOf(axis) : \A x \in CoordsOf(axis) : m >= x
ExtentOf(axis) == HiOf(axis) - LoOf(axis)
MaxExtent == Max(ExtentOf(1), Max(ExtentOf(2), ExtentOf(3)))

\* no geometry, or all of it in one point
Degenerate == scene.points = {} \/ MaxExtent = 0

\* C16: for a graph with bounding-box center c and extents not all zero the
\* normalization gives position = -c (twice the position = -(lo + hi) on
\* each axis) and one scale s on the three axes with s * largest extent =
\* 3/2; for the extents (2, 4, 8) the scale is 3/16
C16_TranslationAndUniformScale ==
    (Normalized /\ ~Degenerate) =>
        /\ \A axis \in 1..3 :
              /\ normalized.position[axis].den > 0
              /\ 2 * normalized.position[axis].num =
                    -(LoOf(axis) + HiOf(axis)) * normalized.position[axis].den
        /\ normalized.scale[2] = normalized.scale[1]
        /\ normalized.scale[3] = normalized.scale[1]
        /\ 2 * normalized.scale[1].num * MaxExtent = 3 * normalized.scale[1].den
        /\ (ExtentOf(1) = 2 /\ ExtentOf(2) = 4 /\ ExtentOf(3) = 8) =>
              normalized.scale[1] = [num |-> 3, den |-> 16]

\* extents (2, 4, 8) about the center (1, 2, 4), in a scene whose file gave
\* it a top-level transform of its own
C16_Witness ==
    /\ Normalized
    /\ scene.points = { Vector3(0, 0, 0), Vector3(2, 4, 8) }
    /\ scene.scale = Vector3(2, 2, 2)
    /\ normalized.position = Vector3(-1, -2, -4)
    /\ normalized.scale = << Q(3, 16), Q(3, 16), Q(3, 16) >>

\* C17: on a graph without geometry or with all its geometry in one point
\* the largest extent is replaced by 1 and the scale is 3/2 on each axis;
\* position and scale are finite numbers
C17_DegenerateBoundsGuard ==
    (Normalized /\ Degenerate) =>
        /\ last.maxDim = [num |-> 1, den |-> 1]
        /\ \A axis \in 1..3 :
              /\ normalized.scale[axis] = [num |-> 3, den |-> 2]
              /\ normalized.position[axis].den = 1

\* a single vertex away from the origin
C17_Witness ==
    /\ Normalized
    /\ scene.points = { Vector3(3, 0, 0) }
    /\ normalized.scale = << Q(3, 2), Q(3, 2), Q(3, 2) >>
    /\ normalized.position = Vector3(-3, 0, 0)

\* C18: the normalized graph fits the canonical box: the bounding box of
\* its vertices under the transform of the returned root (position + scale
\* * point) has its center at the origin and its largest side equal to 3/2
C18_FitsCanonicalBox ==
    (Normalized /\ ~Degenerate) =>
        /\ getCenter(setFromObject(normalized)) = Vector3(0, 0, 0)
        /\ maxDimOf_noGuard(getSize(setFromObject(normalized))) = TARGET_SIZE

\* a job is in flight: its completion is still to come
InFlight == timeouts # <<>>

\* C19: browsing is not held up by a job. While a job is in flight typing
\* in the search input is possible and so is a click on any card shown; a
\* click or a keystroke is in the state at once, the job's timers and
\* progress untouched by it; and a completion leaves selectedId and the
\* filter text as it found them
C19_BrowsingNotBlockedByJob ==
    /\ InFlight =>
          /\ ENABLED Filter
          /\ \A l \in {appList(state)} : l # <<>> => ENABLED SelectFrom(l)
    /\ last.op = "select" => state.selectedId = last.id
    /\ last.op = "filter" => state.filter = last.q
    /\ Completed => /\ state.selectedId = last.before.selectedId
                    /\ state.filter = last.before.filter

\* with a job in flight and its progress showing, a click moved the
\* selection under a filter typed meanwhile
C19_Witness ==
    /\ InFlight
    /\ progress # <<>>
    /\ progress # <<0>>
    /\ state.filter = <<"h","e","r","o">>
    /\ last.op = "select"
    /\ last.moved
    /\ state.selectedId = last.id

\* C20: a job superseded by a later run writes no job state any more: only
\* the timer of the newest run ticks, a completion of an older job leaves
\* progress present, and progress is present as long as a job is in flight
C20_SupersededJobIsSilent ==
    /\ last.op = "tick" => last.timer = runs
    /\ (Completed /\ last.timer # runs) => progress # <<>>
    /\ InFlight => progress # <<>>

\* the job of the newest run is in flight
NewestInFlight == \E i \in 1..Len(timeouts) : timeouts[i].timer = runs

\* C21: progress is absent or a whole number in 0..100; a run puts it at 0;
\* a tick raises a present progress by 12, to 100 at most; and from the
\* start of a job to its completion progress stays present and never
\* falls
C21_ProgressRangeAndMonotone ==
    [][ /\ progress' # <<>> => progress'[1] \in 0..100
        /\ last'.op = "run" => progress' = <<0>>
        /\ (last'.op = "tick" /\ progress # <<>>) =>
              progress' = << IF progress[1] + 12 > 100 THEN 100 ELSE progress[1] + 12 >>
        /\ (NewestInFlight /\ NewestInFlight' /\ runs' = runs) =>
              /\ progress # <<>>
              /\ progress' # <<>>
              /\ progress'[1] >= progress[1]
      ]_vars

\* the job with this timer handle is in flight
Pending(t) == \E i \in 1..Len(timeouts) : timeouts[i].timer = t

\* C22: every job that was started completes, whatever progress shows (a
\* pending completion can fire in every state, ticked or not); and when no
\* started job is left, progress is absent, no interval timer is active,
\* and progress stays absent until the next run
C22_JobsCompleteAndProgressClears ==
    /\ \A t \in 1..MaxRuns : Pending(t) ~> ~Pending(t)
    /\ [](InFlight => ENABLED Complete)
    /\ []((runs > 0 /\ ~InFlight) => (progress = <<>> /\ timers = {}))
    /\ [][(~InFlight /\ ~InFlight') => progress' = <<>>]_vars

\* two runs were made and both jobs have completed
C22_Witness ==
    /\ Completed
    /\ runs = 2
    /\ last.timer = 2
    /\ ~InFlight
    /\ progress = <<>>
    /\ timers = {}

\* the fields of an asset that the compression transform copies
CopiedFields ==
    {"id", "name", "tags", "createdAt", "shape", "color", "category", "gltfUrl"}

\* C23: a compress that resolves the selection at index i returns a new
\* asset sequence (the input sequence is not written to) of the same length;
\* every element but i is the asset it was; element i keeps its id, name,
\* tags, createdAt, shape, color, category and model reference, so that it
\* differs from the old one in polyCount and sizeMB at most; the other
\* fields of the state are kept.
C23_CompressReplacesOneAsset ==
    (Dispatched("compress_selected")
        /\ ~Falsy(last.before.selectedId)
        /\ findIndex(last.before.assets, last.before.selectedId) # -1) =>
            LET i == findIndex(last.before.assets, last.before.selectedId)
            IN  /\ last.shares = "none"
                /\ Len(state.assets) = Len(last.before.assets)
                /\ \A j \in 1..Len(state.assets) :
                       j # i => state.assets[j] = last.before.assets[j]
                /\ \A f \in CopiedFields :
                       state.assets[i][f] = last.before.assets[i][f]
                /\ DOMAIN state.assets[i] = DOMAIN last.before.assets[i]
                /\ state = [last.before EXCEPT !.assets = state.assets]

\* C23 witness: the second of several assets was compressed and changed
C23_Witness ==
    /\ Dispatched("compress_selected")
    /\ last.before.selectedId = "2"
    /\ Len(state.assets) >= 3
    /\ state.assets[2].polyCount < last.before.assets[2].polyCount
    /\ state.assets[2].sizeMB < last.before.assets[2].sizeMB
    /\ state.assets[1] = last.before.assets[1]

\* C24: select, filter and set_lod each change their own field of the state
\* and nothing else; a run, a tick and the commit of the transition change
\* no field of the state; a completion changes lod and, through compress,
\* assets, and nothing else; so assets change in no step but a completion.
C24_SingleWriter ==
    [][ /\ last'.op = "select" => state' = [state EXCEPT !.selectedId = last'.id]
        /\ last'.op = "filter" => state' = [state EXCEPT !.filter = last'.q]
        /\ \A lod \in LOD :
              reducer(state, [type |-> "set_lod", lod |-> lod])
                  = [state EXCEPT !.lod = lod]
        /\ last'.op \in {"run", "tick", "transition"} => state' = state
        /\ last'.op = "complete" =>
              state' = [state EXCEPT !.lod = last'.next, !.assets = state'.assets]
        /\ state'.assets # state.assets => last'.op = "complete"
      ]_vars

\* C24 witness: after a compression changed the assets, a card was clicked
\* and a query typed, a tick of a later job fires
C24_Witness ==
    /\ last.op = "tick"
    /\ state.assets # INITIAL_ASSETS
    /\ state.selectedId # INITIAL_ASSETS[1].id
    /\ state.filter # <<>>
    /\ state.lod # "HIGH"

\* the position in the shown list of the asset handed to the details panel
\* and the viewer, -1 when they are handed null
ShownAt(s) == findIndex(appList(s), s.selectedId)

\* C25: whatever the filter text, the selection handed to the details panel
\* and the viewer is the asset of the current assets with the id selectedId
\* when there is one, and none only when there is no such asset; so the
\* asset a compress would replace is the one shown as selected.
C25_SelectionIsLookupInAssets ==
    LET idx == findIndex(state.assets, state.selectedId)
    IN  /\ idx # -1 =>
              /\ ShownAt(state) # -1
              /\ appList(state)[ShownAt(state)] = state.assets[idx]
        /\ idx = -1 => ShownAt(state) = -1

\* C26: the normalization writes to a copy: no run of it changes the
\* position, the rotation or the scale of the scene shared by the consumers
\* of a url, and a run on a scene normalized before gives the translation
\* and the scale the earlier run gave
C26_SourceUntouched ==
    [][ /\ scene'.position = scene.position
        /\ scene'.rotation = scene.rotation
        /\ scene'.scale = scene.scale
        /\ scene'.points = scene.points
        /\ Normalized =>
              /\ normalized'.position = normalized.position
              /\ normalized'.scale = normalized.scale
      ]_vars

\* C26 witness: a scene with a top-level transform of its own and extents
\* (2, 4, 8) was normalized a second time
C26_Witness ==
    /\ Normalized
    /\ last.again
    /\ scene.points = { Vector3(0, 0, 0), Vector3(2, 4, 8) }
    /\ scene.position = Vector3(5, 0, -1)
    /\ scene.scale = Vector3(2, 2, 2)
    /\ normalized.position = Vector3(-1, -2, -4)
    /\ normalized.scale = << Q(3, 16), Q(3, 16), Q(3, 16) >>

\* C27: the completions fire in the order of the runs (every job still
\* pending after a completion was started later than the one completed);
\* the completion that leaves no job pending is that of the most recently
\* invoked run and leaves lod at that run's level; and with no job pending
\* lod stays what it is
C27_LastRunWins ==
    [][ /\ last'.op = "complete" =>
              \A i \in 1..Len(timeouts') : timeouts'[i].timer > last'.timer
        /\ (timeouts # <<>> /\ timeouts' = <<>>) =>
              /\ timeouts[Len(timeouts)].timer = runs
              /\ state'.lod = timeouts[Len(timeouts)].next
        /\ (timeouts = <<>> /\ timeouts' = <<>>) => state'.lod = state.lod
      ]_vars

\* C27 witness: the second of two overlapping runs has completed last; it
\* asked for the level the first had asked for, which the select lets
\* through only while the first is still pending
C27_Witness ==
    /\ Completed
    /\ last.timer = 2
    /\ runs = 2
    /\ timeouts = <<>>
    /\ last.before.lod = last.next
    /\ state.lod = last.next

\* the last step was the two dispatches of a completion
Applied == last.op = "apply"

\* C28: from the seed catalog every asset keeps 10000 <= polyCount <= its
\* seed polyCount and 20 <= sizeMB <= its seed sizeMB, and a compress
\* raises neither value of any asset
C28_WithinSeedAndFloors ==
    /\ Len(state.assets) = Len(INITIAL_ASSETS)
    /\ \A i \in 1..Len(state.assets) :
          /\ PolyFloor <= state.assets[i].polyCount
          /\ state.assets[i].polyCount <= INITIAL_ASSETS[i].polyCount
          /\ SizeFloor <= state.assets[i].sizeMB
          /\ state.assets[i].sizeMB <= INITIAL_ASSETS[i].sizeMB
          /\ Applied =>
                /\ state.assets[i].polyCount <= last.before.assets[i].polyCount
                /\ state.assets[i].sizeMB <= last.before.assets[i].sizeMB

\* C28 witness: Hero Shield after a compress at MED and one at LOW, between
\* its floors and its seed values
C28_Witness ==
    /\ Applied
    /\ state.selectedId = "1"
    /\ last.next = "LOW"
    /\ last.before.assets[1].polyCount = 328000
    /\ state.assets[1].polyCount = 65600
    /\ state.assets[1].sizeMB = 23

\* the asset the selection resolves to in the assets of the state
Chosen(s) == s.assets[findIndex(s.assets, s.selectedId)]

\* the asset is at both floors
AtFloors(a) == a.polyCount = PolyFloor /\ a.sizeMB = SizeFloor

\* C29: for an asset with polyCount >= 10000 and sizeMB >= 20 a compress at
\* any level lowers each of the two values that is above its floor and
\* keeps one that is at its floor; compressed again and again the asset
\* comes to (10000, 20) and stays there, a compress at any of the three
\* levels returning it as it is
C29_CompressionConverges ==
    /\ [][ LET a == Chosen(state)
               b == Chosen(state')
           IN  /\ a.polyCount > PolyFloor =>
                     (PolyFloor <= b.polyCount /\ b.polyCount < a.polyCount)
               /\ a.polyCount = PolyFloor => b.polyCount = PolyFloor
               /\ a.sizeMB > SizeFloor =>
                     (SizeFloor <= b.sizeMB /\ b.sizeMB < a.sizeMB)
               /\ a.sizeMB = SizeFloor => b.sizeMB = SizeFloor
         ]_vars
    /\ <>[]AtFloors(Chosen(state))
    /\ [](AtFloors(Chosen(state)) =>
            \A lod \in LOD : simulateCompression(Chosen(state), lod) = Chosen(state))

\* C29 witness: an asset that started above both floors was compressed at
\* the floors, at a level other than the one before, and did not change
C29_Witness ==
    /\ Applied
    /\ AtFloors(Chosen(state))
    /\ Chosen(last.before) = Chosen(state)
    /\ last.next # last.before.lod
    /\ Chosen(state).name = INITIAL_ASSETS[2].name

====
